---- MODULE Spec2Model ----
(***************************************************************************)
(* The content-state and asset-lifecycle controller of the vocabulary      *)
(* client (the App component and the generative-service adapter).          *)
(*                                                                         *)
(* React state is modelled by one variable per useState cell.  An async    *)
(* handler is a task record: its position (pc) and the values its closure  *)
(* captured from the render in which the user triggered it.  Everything a  *)
(* handler does between two awaits is one atomic step, and the render that  *)
(* follows a state update is complete before the next user event, so a     *)
(* click handler sees the state as it is when the user clicks.             *)
(***************************************************************************)
EXTENDS Integers, Sequences, FiniteSets, TLC

VARIABLES
  rev,              \* which revision of the component runs: "v4", "v5", "v9"
  hasAistudio,      \* window.aistudio is present
  mounted,          \* the component rendered: its state initialisers did not throw
  categories,       \* useState: the catalog
  state,            \* useState: GameState (view, selectedCategory, selectedGame, score)
  learningIndex,    \* useState: 0-based index of the displayed item
  showPersian,      \* useState: reveal-localized-name toggle
  isSpeaking,       \* useState: busy flag
  isExpanding,      \* useState: busy flag
  isGeneratingImg,  \* useState: busy flag
  itemImage,        \* useState: displayed image payload or Null
  showAllCats,      \* useState (v9): all-topics overlay
  localStorage,     \* persisted catalog record
  imageStorage,     \* asset cache: key -> payload
  expandTasks,      \* in-flight handleExpand invocations, oldest first
  imageTasks,       \* in-flight handleImageGen invocations, oldest first
  speechTasks,      \* in-flight handleSpeech invocations, oldest first
  loadTasks,        \* item ids with a loadImage lookup pending
  now,              \* Date.now()
  calls,            \* history: the handler invocations, with the guard's verdict
  speechLog,        \* history: calls made to the speech collaborators
  imageLog,         \* history: calls made to the image adapter
  errorLog          \* history: the failures handleApiError was given, and what it did

navVars  == <<state, learningIndex, showPersian, showAllCats>>
flagVars == <<isSpeaking, isExpanding, isGeneratingImg>>
envVars  == <<rev, hasAistudio, mounted>>
vars == <<rev, hasAistudio, mounted, categories, state, learningIndex, showPersian,
          isSpeaking, isExpanding, isGeneratingImg, itemImage, showAllCats,
          localStorage, imageStorage, expandTasks, imageTasks, speechTasks,
          loadTasks, now, calls, speechLog, imageLog, errorLog>>

----------------------------------------------------------------------------
(* Bounds of the model *)

MaxClock == 1       \* Date.now() ranges over 0..MaxClock
MaxExpand == 2      \* handleExpand invocations
MaxImage == 2       \* handleImageGen invocations
MaxSpeak == 2       \* handleSpeech invocations
MaxLoads == 2       \* loadImage lookups pending at once
MaxCalls == 3       \* handler invocations of all kinds, where the three handlers run together
MaxFairCalls == 2   \* the same, in the specification with fairness
MaxEpochCalls == 1  \* handleImageGen invocations in a session that finds an older cache
MaxErrorCalls == 2  \* handler invocations where the error handling is observed
MaxBrowseCalls == 1 \* handleImageGen invocations while browsing all the ways
MaxRemoteCalls == 2 \* handleExpand and handleImageGen invocations, where remote calls are counted

----------------------------------------------------------------------------
(* Data *)

Revisions == {"v4", "v5", "v9"}
Views == {"main", "alphabet", "learning_detail", "game_types", "game_cats", "game_active"}
GameType == {"FLASHCARDS", "QUIZ"}
Null == "null"

Item(id, name, persianName, emoji, color) ==
  [id |-> id, name |-> name, persianName |-> persianName, emoji |-> emoji, color |-> color]

INITIAL_CATEGORIES ==
  << [id |-> "fruits", name |-> "Fruits", icon |-> "F", color |-> "bg-red",
      items |-> << Item("apple", "Apple", "sib", "a", "bg-red"),
                   Item("banana", "Banana", "moz", "b", "bg-yellow") >>],
     [id |-> "animals", name |-> "Animals", icon |-> "A", color |-> "bg-green",
      items |-> << Item("cat", "Cat", "gorbe", "c", "bg-gray") >> ] >>

\* what the remote service may put in the JSON array of an expansion response
Cherry == [name |-> "Cherry", persianName |-> "gilas", emoji |-> "ch"]
Date == [name |-> "Date", persianName |-> "khorma", emoji |-> "d"]
Apple == [name |-> "Apple", persianName |-> "sib", emoji |-> "a"]
Responses == { <<Cherry>>, <<Cherry, Date>>, <<Apple>> }

\* response texts that do not hold a JSON array: prose, and a JSON object
MalformedTexts == {"Here are ten words", "{}"}

\* the image data the remote service may put in an inline part
ImageData == {"p", "q"}

\* error.message of the failures a remote call can end in, as the sequence of
\* its characters, with the nature of the failure
\* the adapter's own failure: getClient found no API_KEY: "API_KEY_MISSING"
ApiKeyMissing ==
  [kind |-> "credential",
   message |-> <<"A", "P", "I", "_", "K", "E", "Y", "_", "M", "I", "S", "S", "I", "N",
               "G">>]
\* the remote service rejects the credential: "403 PERMISSION_DENIED"
PermissionDenied ==
  [kind |-> "credential",
   message |-> <<"4", "0", "3", " ", "P", "E", "R", "M", "I", "S", "S", "I", "O", "N",
               "_", "D", "E", "N", "I", "E", "D">>]
\* the remote service rejects the credential: "API key not valid"
ApiKeyNotValid ==
  [kind |-> "credential",
   message |-> <<"A", "P", "I", " ", "k", "e", "y", " ", "n", "o", "t", " ", "v", "a",
               "l", "i", "d">>]
\* the remote service does not know the project or model: "Requested entity was not found"
EntityNotFound ==
  [kind |-> "notfound",
   message |-> <<"R", "e", "q", "u", "e", "s", "t", "e", "d", " ", "e", "n", "t", "i",
               "t", "y", " ", "w", "a", "s", " ", "n", "o", "t", " ", "f", "o", "u",
               "n", "d">>]
\* the remote service declines to produce the content: "Response blocked: Safety"
SafetyBlocked ==
  [kind |-> "safety",
   message |-> <<"R", "e", "s", "p", "o", "n", "s", "e", " ", "b", "l", "o", "c", "k",
               "e", "d", ":", " ", "S", "a", "f", "e", "t", "y">>]
\* the remote service cannot be reached: "Failed to fetch"
FailedToFetch ==
  [kind |-> "network",
   message |-> <<"F", "a", "i", "l", "e", "d", " ", "t", "o", " ", "f", "e", "t", "c",
               "h">>]
Errors == {ApiKeyMissing, PermissionDenied, ApiKeyNotValid, EntityNotFound, SafetyBlocked, FailedToFetch}

\* the texts handleApiError looks for in error.message
N401 == <<"4", "0", "1">>
N403 == <<"4", "0", "3">>
Nkey == <<"k", "e", "y">>
NSafety == <<"S", "a", "f", "e", "t", "y">>
Nblocked == <<"b", "l", "o", "c", "k", "e", "d">>
NNotFound == <<"R", "e", "q", "u", "e", "s", "t", "e", "d", " ", "e", "n", "t", "i",
               "t", "y", " ", "w", "a", "s", " ", "n", "o", "t", " ", "f", "o", "u",
               "n", "d">>
NApiKey == <<"A", "P", "I", " ", "K", "e", "y">>

Letters == {"A", "B"}

\* the record under the catalog key of localStorage: absent, or a text that is
\* the JSON of a value, or a text that is not JSON at all
NoRecord == [present |-> FALSE, json |-> FALSE, value |-> <<>>]
CorruptRecord == [present |-> TRUE, json |-> FALSE, value |-> <<>>]

\* what is shown of a category that is undefined
NoCategory == [id |-> Null, name |-> Null, icon |-> Null, color |-> Null, items |-> <<>>]

----------------------------------------------------------------------------
(* Pure helpers *)

\* items[i] of a JS array, i 0-based
HasItem(cat, i) == (i + 1) \in DOMAIN cat.items
ItemAt(cat, i) == cat.items[i + 1]

\* Array.prototype.find on the catalog, by id
HasCat(cats, id) == \E k \in DOMAIN cats : cats[k].id = id
FindCat(cats, id) ==
  cats[CHOOSE k \in DOMAIN cats :
         cats[k].id = id /\ \A j \in DOMAIN cats : cats[j].id = id => k <= j]

ItemsOf(cats, id) == IF HasCat(cats, id) THEN FindCat(cats, id).items ELSE <<>>

IsPrefix(s, t) == Len(s) <= Len(t) /\ \A i \in DOMAIN s : s[i] = t[i]

\* number of invocations of a handler so far
Count(op) == Cardinality({i \in DOMAIN calls : calls[i].op = op})

Remove(seq, k) == [i \in 1..(Len(seq) - 1) |-> IF i < k THEN seq[i] ELSE seq[i + 1]]

\* the identifier minted for a generated item
dynId(categoryName, t, index) ==
  "dyn-" \o categoryName \o "-" \o ToString(t) \o "-" \o ToString(index)

\* the value expandCategoryItems resolves to when the response parses to `data`
expandCategoryItems(categoryName, data, t) ==
  [i \in DOMAIN data |->
     Item(dynId(categoryName, t, i - 1), data[i].name, data[i].persianName,
          data[i].emoji, "bg-white")]

\* JSON.stringify of a catalog, and JSON.parse of a text; ok = FALSE stands for
\* the SyntaxError that JSON.parse throws
JSONstringify(cats) == [present |-> TRUE, json |-> TRUE, value |-> cats]
JSONparse(text) == [ok |-> text.json, value |-> text.value]

\* the initialiser of `categories`: saved ? JSON.parse(saved) : INITIAL_CATEGORIES
loadCategories(saved) ==
  IF saved.present THEN JSONparse(saved) ELSE [ok |-> TRUE, value |-> INITIAL_CATEGORIES]

\* mutant: one key prefix for all revisions
cachePrefixShared(r) == "img_"

\* the asset-cache key of an item
cachePrefix(r) == IF r = "v4" THEN "kids_joy_img_"
                  ELSE IF r = "v5" THEN "img_v5_" ELSE "img_v9_"
cacheKey(r, id) == cachePrefix(r) \o id

\* imageStorage.get
imageStorageGet(store, key) == IF key \in DOMAIN store THEN store[key] ELSE Null

\* the payload generateItemImage builds from the data of the remote image part
imagePayload(data) == "data:image/png;base64," \o data

\* String.prototype.includes: `needle` occurs in `msg`, case-sensitive
includes(msg, needle) ==
  \E i \in 0..(Len(msg) - Len(needle)) :
    \A j \in 1..Len(needle) : msg[i + j] = needle[j]

\* what handleApiError(error) does: whether it opens the credential-selection
\* dialog, the text it alerts (or Null), and whether it rejects; promptOk tells
\* whether openSelectKey resolves
handled(prompt, alert, rejected) == [prompt |-> prompt, alert |-> alert, rejected |-> rejected]

handleApiError(r, aistudio, msg, promptOk) ==
  IF r = "v4"
  THEN IF includes(msg, NSafety) \/ includes(msg, Nblocked)
       THEN handled(FALSE, "Magic failed: This word might be too hard for the magic to draw. Try another one!", FALSE)
       ELSE IF aistudio
       THEN IF promptOk THEN handled(TRUE, Null, FALSE)
            ELSE handled(TRUE, "Please select a valid API key to use Magic features.", FALSE)
       ELSE handled(FALSE, "API Key missing. Please check your environment variables.", FALSE)
  ELSE IF r = "v5"
  THEN IF includes(msg, N401) \/ includes(msg, N403) \/ includes(msg, Nkey)
       THEN IF aistudio THEN handled(TRUE, Null, ~promptOk)
            ELSE handled(FALSE, "Please check your API Key configuration.", FALSE)
       ELSE IF includes(msg, NSafety) \/ includes(msg, Nblocked)
       THEN handled(FALSE, "The Magic thinks this might be a bit too sensitive to draw. Let's try another word!", FALSE)
       ELSE handled(FALSE, "The Magic is taking a break (Connection error). Please try again in a moment!", FALSE)
  ELSE IF includes(msg, NNotFound)
       THEN IF aistudio THEN handled(TRUE, Null, ~promptOk) ELSE handled(FALSE, Null, FALSE)
       ELSE IF includes(msg, NApiKey) \/ includes(msg, N401) \/ includes(msg, N403)
       THEN IF aistudio THEN handled(TRUE, Null, ~promptOk) ELSE handled(FALSE, Null, FALSE)
       ELSE handled(FALSE, "Magic is busy! Please check your internet or your Paid API Key.", FALSE)

----------------------------------------------------------------------------
(* Initial state: the first render of a session, and the effects that run  *)
(* after it, with `saved` under the catalog key of localStorage and `store` *)
(* in the asset cache.  An initialiser that throws leaves nothing mounted.  *)

sessionStart(saved, store) ==
  LET loaded == loadCategories(saved) IN
  /\ rev \in Revisions
  /\ hasAistudio \in BOOLEAN
  /\ mounted = loaded.ok
  /\ categories = IF loaded.ok THEN loaded.value ELSE <<>>
  /\ state = [view |-> "main",
              selectedCategory |-> IF loaded.ok THEN loaded.value[1] ELSE NoCategory,
              selectedGame |-> Null, score |-> 0]
  /\ learningIndex = 0
  /\ showPersian = FALSE
  /\ isSpeaking = FALSE
  /\ isExpanding = FALSE
  /\ isGeneratingImg = FALSE
  /\ itemImage = Null
  /\ showAllCats = FALSE
  /\ localStorage = IF loaded.ok THEN JSONstringify(loaded.value) ELSE saved
  /\ imageStorage = store
  /\ expandTasks = <<>>
  /\ imageTasks = <<>>
  /\ speechTasks = <<>>
  /\ loadTasks = {}
  /\ now = 0
  /\ calls = <<>>
  /\ speechLog = <<>>
  /\ imageLog = <<>>

\* the error handling is recorded only where a specification observes it
InitWith(saved, store) ==
  /\ sessionStart(saved, store)
  /\ errorLog = [observed |-> FALSE, log |-> <<>>]

EmptyStore == [k \in {} |-> Null]

\* a first visit: no saved record, an empty asset cache
Init == InitWith(NoRecord, EmptyStore)

----------------------------------------------------------------------------
(* The loadImage effect.  It runs after a render in which learningIndex,   *)
(* state.view or state.selectedCategory changed; in learning_detail, with  *)
(* an item under the index, it issues a cache lookup for that item.  The   *)
(* displayed image is replaced only when the lookup returns.               *)

loadImageEffect ==
  /\ loadTasks' =
       IF /\ <<learningIndex', state'.view, state'.selectedCategory>>
               # <<learningIndex, state.view, state.selectedCategory>>
          /\ state'.view = "learning_detail"
          /\ HasItem(state'.selectedCategory, learningIndex')
       THEN loadTasks \cup {ItemAt(state'.selectedCategory, learningIndex').id}
       ELSE loadTasks
  /\ Cardinality(loadTasks') <= MaxLoads

\* mutant: a lookup that misses asks the image adapter for the image
loadImageGenerates(id) ==
  /\ id \in loadTasks
  /\ itemImage' = imageStorageGet(imageStorage, cacheKey(rev, id))
  /\ loadTasks' = loadTasks \ {id}
  /\ imageLog' = IF cacheKey(rev, id) \in DOMAIN imageStorage THEN imageLog
                 ELSE Append(imageLog, [id |-> id, name |-> id, cached |-> FALSE])
  /\ UNCHANGED <<envVars, categories, navVars, flagVars, localStorage, imageStorage,
                 expandTasks, imageTasks, speechTasks, now, calls, speechLog,
                 errorLog>>

\* const cached = await imageStorage.get(key); setItemImage(cached)
loadImage(id) ==
  /\ id \in loadTasks
  /\ itemImage' = imageStorageGet(imageStorage, cacheKey(rev, id))
  /\ loadTasks' = loadTasks \ {id}
  /\ UNCHANGED <<envVars, categories, navVars, flagVars, localStorage, imageStorage,
                 expandTasks, imageTasks, speechTasks, now, calls, speechLog,
                 imageLog, errorLog>>

----------------------------------------------------------------------------
(* Navigation: the onClick handlers of the views *)

Visible(v) == mounted /\ state.view = v /\ ~showAllCats

navFrame ==
  UNCHANGED <<envVars, categories, flagVars, itemImage, localStorage, imageStorage,
              expandTasks, imageTasks, speechTasks, now, calls, speechLog,
              imageLog, errorLog>>

GoAlphabet ==
  /\ Visible("main")
  /\ state' = [state EXCEPT !.view = "alphabet"]
  /\ UNCHANGED <<learningIndex, showPersian, showAllCats>>
  /\ loadImageEffect /\ navFrame

\* "NEW WORDS" button of v4 and v5
NewWords ==
  /\ rev \in {"v4", "v5"} /\ Visible("main") /\ Len(categories) > 0
  /\ state' = [state EXCEPT !.view = "learning_detail", !.selectedCategory = categories[1]]
  /\ UNCHANGED <<learningIndex, showPersian, showAllCats>>
  /\ loadImageEffect /\ navFrame

\* topic grid of v9: categories.slice(0, 9)
PickTopic(k) ==
  /\ rev = "v9" /\ Visible("main") /\ k \in DOMAIN categories /\ k <= 9
  /\ state' = [state EXCEPT !.view = "learning_detail", !.selectedCategory = categories[k]]
  /\ UNCHANGED <<learningIndex, showPersian, showAllCats>>
  /\ loadImageEffect /\ navFrame

GoGameTypes ==
  /\ Visible("main")
  /\ state' = [state EXCEPT !.view = "game_types"]
  /\ UNCHANGED <<learningIndex, showPersian, showAllCats>>
  /\ loadImageEffect /\ navFrame

OpenAllCats ==
  /\ rev = "v9" /\ (Visible("main") \/ Visible("learning_detail"))
  /\ showAllCats' = TRUE
  /\ UNCHANGED <<state, learningIndex, showPersian>>
  /\ loadImageEffect /\ navFrame

CloseAllCats ==
  /\ showAllCats
  /\ showAllCats' = FALSE
  /\ UNCHANGED <<state, learningIndex, showPersian>>
  /\ loadImageEffect /\ navFrame

PickFromAllCats(k) ==
  /\ showAllCats /\ k \in DOMAIN categories
  /\ state' = [state EXCEPT !.view = "learning_detail", !.selectedCategory = categories[k]]
  /\ showAllCats' = FALSE
  /\ UNCHANGED <<learningIndex, showPersian>>
  /\ loadImageEffect /\ navFrame

GoHome ==
  /\ \E v \in {"learning_detail", "alphabet", "game_types", "game_cats"} : Visible(v)
  /\ state' = [state EXCEPT !.view = "main"]
  /\ UNCHANGED <<learningIndex, showPersian, showAllCats>>
  /\ loadImageEffect /\ navFrame

\* category bar of learning_detail
SwitchCategory(k) ==
  /\ Visible("learning_detail") /\ k \in DOMAIN categories
  /\ state' = [state EXCEPT !.selectedCategory = categories[k]]
  /\ learningIndex' = 0
  /\ showPersian' = IF rev = "v9" THEN FALSE ELSE showPersian
  /\ UNCHANGED showAllCats
  /\ loadImageEffect /\ navFrame

TogglePersian ==
  /\ Visible("learning_detail")
  /\ showPersian' = ~showPersian
  /\ UNCHANGED <<state, learningIndex, showAllCats>>
  /\ loadImageEffect /\ navFrame

\* mutant: the next button does not wrap around
NextItemNoWrap ==
  /\ Visible("learning_detail")
  /\ learningIndex' = learningIndex + 1
  /\ showPersian' = FALSE
  /\ UNCHANGED <<state, showAllCats>>
  /\ loadImageEffect /\ navFrame

PrevItem ==
  /\ Visible("learning_detail")
  /\ learningIndex' = IF learningIndex > 0 THEN learningIndex - 1
                      ELSE Len(state.selectedCategory.items) - 1
  /\ showPersian' = FALSE
  /\ UNCHANGED <<state, showAllCats>>
  /\ loadImageEffect /\ navFrame

NextItem ==
  /\ Visible("learning_detail")
  /\ learningIndex' = IF learningIndex < Len(state.selectedCategory.items) - 1
                      THEN learningIndex + 1 ELSE 0
  /\ showPersian' = FALSE
  /\ UNCHANGED <<state, showAllCats>>
  /\ loadImageEffect /\ navFrame

\* mutant: the game picker opens the category grid without storing the mode
PickGameForgetsMode(type) ==
  /\ Visible("game_types") /\ type \in GameType
  /\ state' = [state EXCEPT !.view = "game_cats"]
  /\ UNCHANGED <<learningIndex, showPersian, showAllCats>>
  /\ loadImageEffect /\ navFrame

\* a game mode button of game_types
PickGame(type) ==
  /\ Visible("game_types") /\ type \in GameType
  /\ state' = [state EXCEPT !.selectedGame = type, !.view = "game_cats"]
  /\ UNCHANGED <<learningIndex, showPersian, showAllCats>>
  /\ loadImageEffect /\ navFrame

PickGameCat(k) ==
  /\ Visible("game_cats") /\ k \in DOMAIN categories
  /\ state' = [state EXCEPT !.selectedCategory = categories[k], !.view = "game_active"]
  /\ UNCHANGED <<learningIndex, showPersian, showAllCats>>
  /\ loadImageEffect /\ navFrame

\* mutant: the game offers no way back
GameBackMissing == FALSE

\* onBack of the GameEngine
GameBack ==
  /\ Visible("game_active") /\ state.selectedGame # Null
  /\ state' = [state EXCEPT !.view = "game_types"]
  /\ UNCHANGED <<learningIndex, showPersian, showAllCats>>
  /\ loadImageEffect /\ navFrame

\* mutant: the catalog is not saved when it changes
saveEffectSkipped == UNCHANGED localStorage

\* useEffect(() => localStorage.setItem(key, JSON.stringify(categories)), [categories])
saveEffect == localStorage' = JSONstringify(categories')

\* the page is loaded again: pending handlers are gone, every useState cell is
\* initialised anew, and the effects of the first render run
Reload ==
  LET loaded == loadCategories(localStorage) IN
  /\ mounted' = loaded.ok
  /\ categories' = IF loaded.ok THEN loaded.value ELSE <<>>
  /\ state' = [view |-> "main",
               selectedCategory |-> IF loaded.ok THEN loaded.value[1] ELSE NoCategory,
               selectedGame |-> Null, score |-> 0]
  /\ learningIndex' = 0
  /\ showPersian' = FALSE
  /\ isSpeaking' = FALSE /\ isExpanding' = FALSE /\ isGeneratingImg' = FALSE
  /\ itemImage' = Null
  /\ showAllCats' = FALSE
  /\ IF loaded.ok THEN saveEffect ELSE UNCHANGED localStorage
  /\ expandTasks' = <<>> /\ imageTasks' = <<>> /\ speechTasks' = <<>>
  /\ loadTasks' = {}
  /\ UNCHANGED <<rev, hasAistudio, imageStorage, now, calls, speechLog, imageLog,
                 errorLog>>

\* Date.now() moves on
Tick ==
  /\ now < MaxClock
  /\ now' = now + 1
  /\ UNCHANGED <<envVars, categories, navVars, flagVars, itemImage, localStorage,
                 imageStorage, expandTasks, imageTasks, speechTasks, loadTasks,
                 calls, speechLog, imageLog, errorLog>>

----------------------------------------------------------------------------
(* ensureApiKey: with window.aistudio present (v5, v9) the handler waits   *)
(* for hasSelectedApiKey / openSelectKey, and the user can act meanwhile.  *)
(* Without it the await resolves before the next user event.               *)

ensureApiKeySuspends == rev \in {"v5", "v9"} /\ hasAistudio

----------------------------------------------------------------------------
(* The catch blocks of handleExpand and handleImageGen: await               *)
(* handleApiError(e).  The failure e is whatever the awaited call rejected   *)
(* with; the record of it says which handler caught it and what              *)
(* handleApiError did.                                                       *)

logError(op) ==
  IF errorLog.observed
  THEN \E e \in Errors, promptOk \in BOOLEAN :
         errorLog' =
           [errorLog EXCEPT !.log =
              Append(@, [op |-> op, error |-> e,
                         did |-> handleApiError(rev, hasAistudio, e.message, promptOk)])]
  ELSE UNCHANGED errorLog

----------------------------------------------------------------------------
(* handleExpand *)

\* mutant: the guard is missing
expandGuardOff == FALSE

\* if (isExpanding || !state.selectedCategory) return;
\* (the catalog is never empty here, so a category is always selected)
expandGuard == isExpanding

\* categories.map(c => c.id === sel.id ? { ...c, items: [...c.items, ...newItems] } : c)
mergeItems(cats, sel, newItems) ==
  [k \in DOMAIN cats |->
     IF cats[k].id = sel.id THEN [cats[k] EXCEPT !.items = @ \o newItems] ELSE cats[k]]

\* mutant: the selection is not refreshed after a merge
refreshSelectedSkipped(r, s, sel, updated) == s

\* the setState that refreshes state.selectedCategory after a merge
refreshSelected(r, s, sel, updated) ==
  IF r = "v9"
  THEN IF HasCat(updated, sel.id)
       THEN [s EXCEPT !.selectedCategory = FindCat(updated, sel.id)] ELSE s
  ELSE IF HasCat(updated, s.selectedCategory.id)
       THEN [s EXCEPT !.selectedCategory = FindCat(updated, s.selectedCategory.id)] ELSE s

expandFrame ==
  UNCHANGED <<envVars, isSpeaking, isGeneratingImg, itemImage, imageStorage, imageTasks,
              speechTasks, now, speechLog, imageLog>>

\* the click: the guard, then either the credential check or the flag
handleExpand ==
  /\ Visible("learning_detail")
  /\ Count("expand") < MaxExpand
  /\ calls' = Append(calls, [op |-> "expand", passed |-> ~expandGuard, arg |-> Null])
  /\ IF expandGuard
     THEN UNCHANGED <<isExpanding, expandTasks>>
     ELSE IF ensureApiKeySuspends
     THEN /\ expandTasks' = Append(expandTasks,
               [pc |-> "key", cats |-> categories, sel |-> state.selectedCategory])
          /\ UNCHANGED isExpanding
     ELSE /\ expandTasks' = Append(expandTasks,
               [pc |-> "call", cats |-> categories, sel |-> state.selectedCategory])
          /\ isExpanding' = TRUE
  /\ UNCHANGED <<categories, navVars, localStorage, loadTasks>>
  /\ expandFrame
  /\ UNCHANGED errorLog

\* ensureApiKey returned: setIsExpanding(true) and the remote call goes out
ExpandKeyReturn(k) ==
  /\ k \in DOMAIN expandTasks /\ expandTasks[k].pc = "key"
  /\ isExpanding' = TRUE
  /\ expandTasks' = [expandTasks EXCEPT ![k].pc = "call"]
  /\ UNCHANGED <<categories, navVars, localStorage, loadTasks, calls>>
  /\ expandFrame
  /\ UNCHANGED errorLog

\* hasSelectedApiKey / openSelectKey rejected: the handler ends before its try block
ExpandKeyThrow(k) ==
  /\ k \in DOMAIN expandTasks /\ expandTasks[k].pc = "key"
  /\ expandTasks' = Remove(expandTasks, k)
  /\ UNCHANGED <<categories, navVars, localStorage, loadTasks, calls, isExpanding>>
  /\ expandFrame
  /\ UNCHANGED errorLog

\* the service answered with a non-empty array `data`
ExpandReturn(k, data) ==
  /\ k \in DOMAIN expandTasks /\ expandTasks[k].pc = "call"
  /\ data \in Responses
  /\ LET t == expandTasks[k]
         newItems == expandCategoryItems(t.sel.name, data, now)
         updated == mergeItems(t.cats, t.sel, newItems)
     IN /\ categories' = updated
        /\ saveEffect
        /\ state' = refreshSelected(rev, state, t.sel, updated)
  /\ isExpanding' = FALSE
  /\ expandTasks' = Remove(expandTasks, k)
  /\ UNCHANGED <<learningIndex, showPersian, showAllCats, calls>>
  /\ loadImageEffect
  /\ expandFrame
  /\ UNCHANGED errorLog

\* the service answered with an empty array
ExpandEmpty(k) ==
  /\ k \in DOMAIN expandTasks /\ expandTasks[k].pc = "call"
  /\ isExpanding' = FALSE
  /\ expandTasks' = Remove(expandTasks, k)
  /\ UNCHANGED <<categories, navVars, localStorage, loadTasks, calls>>
  /\ expandFrame
  /\ UNCHANGED errorLog

\* the remote call rejected: catch (e) { await handleApiError(e) }
ExpandThrow(k) ==
  /\ k \in DOMAIN expandTasks /\ expandTasks[k].pc = "call"
  /\ expandTasks' = [expandTasks EXCEPT ![k].pc = "err"]
  /\ UNCHANGED <<categories, navVars, localStorage, loadTasks, calls, isExpanding>>
  /\ expandFrame
  /\ UNCHANGED errorLog

\* the service answered with a text that does not hold a JSON array: JSON.parse
\* throws on prose and data.map is not a function on an object, so
\* expandCategoryItems rejects: catch (e) { await handleApiError(e) }
ExpandMalformed(k, text) ==
  /\ k \in DOMAIN expandTasks /\ expandTasks[k].pc = "call"
  /\ text \in MalformedTexts
  /\ expandTasks' = [expandTasks EXCEPT ![k].pc = "err"]
  /\ UNCHANGED <<categories, navVars, localStorage, loadTasks, calls, isExpanding>>
  /\ expandFrame
  /\ UNCHANGED errorLog

\* mutant: the flag is reset in the try block only, not in a finally
ExpandErrReturnNoFinally(k) ==
  /\ k \in DOMAIN expandTasks /\ expandTasks[k].pc = "err"
  /\ expandTasks' = Remove(expandTasks, k)
  /\ UNCHANGED <<categories, navVars, localStorage, loadTasks, calls, isExpanding>>
  /\ expandFrame
  /\ logError("expand")

\* handleApiError returned or threw: finally { setIsExpanding(false) }
ExpandErrReturn(k) ==
  /\ k \in DOMAIN expandTasks /\ expandTasks[k].pc = "err"
  /\ isExpanding' = FALSE
  /\ expandTasks' = Remove(expandTasks, k)
  /\ UNCHANGED <<categories, navVars, localStorage, loadTasks, calls>>
  /\ expandFrame
  /\ logError("expand")

----------------------------------------------------------------------------
(* Specification of the expansion path: browsing categories and expanding *)

NextExpand ==
  \/ NewWords
  \/ \E k \in DOMAIN categories : PickTopic(k)
  \/ GoHome
  \/ \E k \in DOMAIN categories : SwitchCategory(k)
  \/ handleExpand
  \/ \E k \in DOMAIN expandTasks : ExpandKeyReturn(k)
  \/ \E k \in DOMAIN expandTasks : ExpandKeyThrow(k)
  \/ \E k \in DOMAIN expandTasks : \E data \in Responses : ExpandReturn(k, data)
  \/ \E k \in DOMAIN expandTasks : ExpandEmpty(k)
  \/ \E k \in DOMAIN expandTasks : ExpandThrow(k)
  \/ \E k \in DOMAIN expandTasks : \E text \in MalformedTexts : ExpandMalformed(k, text)
  \/ \E k \in DOMAIN expandTasks : ExpandErrReturn(k)
  \/ \E id \in loadTasks : loadImage(id)
  \/ Tick

SpecExpand == Init /\ [][NextExpand]_vars

----------------------------------------------------------------------------
(* Specification of the persisted catalog: sessions that start with any    *)
(* record under the catalog key, expand categories, and are loaded again    *)

\* the catalog of a session that expanded Fruits once
ExpandedCatalog ==
  mergeItems(INITIAL_CATEGORIES, INITIAL_CATEGORIES[1],
             expandCategoryItems("Fruits", <<Cherry>>, 0))

SavedRecords == {NoRecord, CorruptRecord, JSONstringify(ExpandedCatalog)}

InitStore == \E saved \in SavedRecords : InitWith(saved, EmptyStore)

NextStore ==
  \/ NewWords
  \/ \E k \in DOMAIN categories : PickTopic(k)
  \/ \E k \in DOMAIN categories : SwitchCategory(k)
  \/ handleExpand
  \/ \E k \in DOMAIN expandTasks : ExpandKeyReturn(k)
  \/ \E k \in DOMAIN expandTasks : ExpandKeyThrow(k)
  \/ \E k \in DOMAIN expandTasks : \E data \in Responses : ExpandReturn(k, data)
  \/ \E k \in DOMAIN expandTasks : ExpandEmpty(k)
  \/ \E k \in DOMAIN expandTasks : ExpandThrow(k)
  \/ \E k \in DOMAIN expandTasks : \E text \in MalformedTexts : ExpandMalformed(k, text)
  \/ \E k \in DOMAIN expandTasks : ExpandErrReturn(k)
  \/ \E id \in loadTasks : loadImage(id)
  \/ Reload

SpecStore == InitStore /\ [][NextStore]_vars

----------------------------------------------------------------------------
(* Claims about expansion *)

\* C1: at most one expansion is in flight: the number of handleExpand
\* invocations that passed the guard and have not finished is at most 1.
C1_SingleExpansionInFlight == Len(expandTasks) <= 1

\* C2: when an expansion that returned N >= 1 items completes, the target
\* category's items in the catalog are the items it had immediately before the
\* completion followed by the N returned items.
C2_AppendOnly ==
  [][\A k \in DOMAIN expandTasks : \A data \in Responses :
       ExpandReturn(k, data) =>
         LET t == expandTasks[k] IN
           ItemsOf(categories', t.sel.id) =
             ItemsOf(categories, t.sel.id) \o expandCategoryItems(t.sel.name, data, now)]_vars

\* C3: merges are never lost: each category's item sequence in a state is a
\* prefix of its item sequence in the next state (hence in every later state).
C3_MergesNeverLost ==
  [][/\ DOMAIN categories' = DOMAIN categories
     /\ \A k \in DOMAIN categories :
          IsPrefix(categories[k].items, categories'[k].items)]_vars

\* C4: item identifiers are unique within a category in every reachable state.
C4_UniqueItemIds ==
  \A k \in DOMAIN categories :
    \A i, j \in DOMAIN categories[k].items :
      categories[k].items[i].id = categories[k].items[j].id => i = j

\* C14: an expansion that returns no items, or whose remote call fails, changes
\* neither the catalog nor the persisted record, and when it ends the expanding
\* flag is down; where expansions cannot overlap, both are what they were when
\* the expansion was requested.
C14_FailedExpansionChangesNothing ==
  [][\A k \in DOMAIN expandTasks :
       /\ (ExpandEmpty(k) \/ ExpandThrow(k) \/ ExpandErrReturn(k)) =>
            /\ categories' = categories
            /\ localStorage' = localStorage
            /\ ~ensureApiKeySuspends =>
                 /\ categories' = expandTasks[k].cats
                 /\ localStorage' = JSONstringify(expandTasks[k].cats)
       /\ (ExpandEmpty(k) \/ ExpandErrReturn(k)) => ~isExpanding']_vars

\* two expansions that could not overlap have ended, one merged one item into
\* Fruits, the other changed nothing, and the flag is down
C14_Witness ==
  /\ ~ensureApiKeySuspends
  /\ Len(calls) = 2 /\ calls[1].passed /\ calls[2].passed
  /\ expandTasks = <<>> /\ ~isExpanding
  /\ Len(categories[1].items) = Len(INITIAL_CATEGORIES[1].items) + 1
  /\ categories[2] = INITIAL_CATEGORIES[2]
  /\ localStorage = JSONstringify(categories)

\* C15: a response text that is no JSON array (prose, or a JSON object) is taken
\* as zero new items: the handler ends as it does on an empty array, with the
\* catalog unchanged and the flag down, and without entering its error path.
C15_MalformedIsEmpty ==
  [][\A k \in DOMAIN expandTasks : \A text \in MalformedTexts :
       ExpandMalformed(k, text) => ExpandEmpty(k)]_vars

\* C16: a session that finds an unparseable text under the catalog key starts
\* as one that finds no record: the component mounts (no error is raised) with
\* the default catalog, and the unparseable text is replaced by the saved catalog.
C16_CorruptStoreRecovers == mounted /\ localStorage # CorruptRecord

\* C17: the persisted record holds the complete catalog after every change of
\* the catalog: in every state of a mounted session it is the JSON of the
\* in-memory catalog, and a session loaded again at any point starts with
\* exactly that catalog (same categories, same items in the same order).
C17_PersistedEqualsCatalog ==
  /\ [](mounted => localStorage = JSONstringify(categories))
  /\ [][(mounted /\ Reload) => (mounted' /\ categories' = categories)]_vars

\* a session merged new items into its catalog and was loaded again: it is back
\* on the main view with the merged catalog, which is also what is persisted
C17_Witness ==
  /\ mounted /\ state.view = "main" /\ expandTasks = <<>>
  /\ \E i \in DOMAIN calls : calls[i].op = "expand" /\ calls[i].passed
  /\ categories \notin {INITIAL_CATEGORIES, ExpandedCatalog}
  /\ localStorage = JSONstringify(categories)

\* C21: within every category the display names of the items are unique
\* (case-sensitive): no two items of one category have the same name, whatever
\* names the remote service returns.
C21_UniqueItemNames ==
  \A k \in DOMAIN categories :
    \A i, j \in DOMAIN categories[k].items :
      categories[k].items[i].name = categories[k].items[j].name => i = j

\* C31: an expansion changes only the items of its target, the category that
\* was selected when it was requested: when it completes, the catalog has the
\* same categories in the same order, every category but the target is as it
\* was, and the target keeps its identifier, name, glyph and color.
C31_ExpansionTouchesOnlyTarget ==
  [][\A k \in DOMAIN expandTasks : \A data \in Responses :
       ExpandReturn(k, data) =>
         /\ DOMAIN categories' = DOMAIN categories
         /\ \A j \in DOMAIN categories :
              IF categories[j].id = expandTasks[k].sel.id
              THEN [categories'[j] EXCEPT !.items = <<>>]
                     = [categories[j] EXCEPT !.items = <<>>]
              ELSE categories'[j] = categories[j]]_vars

\* C32: the completion of an expansion does not move the user: the view, the
\* item index and the identifier of the selected category are after the
\* completion what they were immediately before it.
C32_CompletionDoesNotMoveUser ==
  [][\A k \in DOMAIN expandTasks : \A data \in Responses :
       ExpandReturn(k, data) =>
         /\ state'.view = state.view
         /\ learningIndex' = learningIndex
         /\ state'.selectedCategory.id = state.selectedCategory.id]_vars

\* C33: the selected category stays consistent with the catalog: whenever no
\* expansion is in flight, the items of the selected category are the items of
\* the catalog category with the same identifier (so merged items can be
\* stepped to, and the next expansion is given the full current list).
C33_SelectionConsistentWithCatalog ==
  (mounted /\ expandTasks = <<>>) =>
    /\ HasCat(categories, state.selectedCategory.id)
    /\ state.selectedCategory.items = ItemsOf(categories, state.selectedCategory.id)

\* expansions have merged items into Fruits, none is in flight, and the
\* selected category shows Fruits with the merged items
C33_Witness ==
  /\ mounted /\ expandTasks = <<>> /\ state.view = "learning_detail"
  /\ \E i \in DOMAIN calls : calls[i].op = "expand" /\ calls[i].passed
  /\ state.selectedCategory.id = "fruits"
  /\ Len(state.selectedCategory.items) > Len(ExpandedCatalog[1].items)
  /\ state.selectedCategory.items = categories[1].items

----------------------------------------------------------------------------
(* handleImageGen *)

\* if (isGeneratingImg || !item) return;
imageGuard == isGeneratingImg \/ ~HasItem(state.selectedCategory, learningIndex)

imageFrame ==
  UNCHANGED <<envVars, categories, navVars, isSpeaking, isExpanding, localStorage,
              expandTasks, speechTasks, loadTasks, now, speechLog>>

\* the call generateItemImage(item.name, category.name), as the log records it;
\* cached: the asset cache held the item's key when the handler was invoked
imageCall(t) == [id |-> t.item.id, name |-> t.item.name, cached |-> t.cached]

newImageTask(pc) ==
  LET item == ItemAt(state.selectedCategory, learningIndex) IN
    [pc |-> pc, item |-> item, catName |-> state.selectedCategory.name, url |-> Null,
     cached |-> cacheKey(rev, item.id) \in DOMAIN imageStorage]

\* the click: the guard, then either the credential check or the flag and the call
handleImageGen ==
  /\ Visible("learning_detail")
  /\ Count("image") < MaxImage
  /\ calls' = Append(calls, [op |-> "image", passed |-> ~imageGuard, arg |-> Null])
  /\ IF imageGuard
     THEN UNCHANGED <<isGeneratingImg, imageTasks, imageLog>>
     ELSE IF ensureApiKeySuspends
     THEN /\ imageTasks' = Append(imageTasks, newImageTask("key"))
          /\ UNCHANGED <<isGeneratingImg, imageLog>>
     ELSE /\ imageTasks' = Append(imageTasks, newImageTask("call"))
          /\ imageLog' = Append(imageLog, imageCall(newImageTask("call")))
          /\ isGeneratingImg' = TRUE
  /\ UNCHANGED <<itemImage, imageStorage>>
  /\ imageFrame
  /\ UNCHANGED errorLog

\* ensureApiKey returned: setIsGeneratingImg(true) and the remote call goes out
ImageKeyReturn(k) ==
  /\ k \in DOMAIN imageTasks /\ imageTasks[k].pc = "key"
  /\ isGeneratingImg' = TRUE
  /\ imageTasks' = [imageTasks EXCEPT ![k].pc = "call"]
  /\ imageLog' = Append(imageLog, imageCall(imageTasks[k]))
  /\ UNCHANGED <<itemImage, imageStorage, calls>>
  /\ imageFrame
  /\ UNCHANGED errorLog

\* hasSelectedApiKey / openSelectKey rejected: the handler ends before its try block
ImageKeyThrow(k) ==
  /\ k \in DOMAIN imageTasks /\ imageTasks[k].pc = "key"
  /\ imageTasks' = Remove(imageTasks, k)
  /\ UNCHANGED <<isGeneratingImg, itemImage, imageStorage, calls, imageLog>>
  /\ imageFrame
  /\ UNCHANGED errorLog

\* the adapter returned an image: imageStorage.set(key, url) is issued
ImageReturn(k, data) ==
  /\ k \in DOMAIN imageTasks /\ imageTasks[k].pc = "call"
  /\ data \in ImageData
  /\ imageTasks' = [imageTasks EXCEPT ![k].pc = "store", ![k].url = imagePayload(data)]
  /\ UNCHANGED <<isGeneratingImg, itemImage, imageStorage, calls, imageLog>>
  /\ imageFrame
  /\ UNCHANGED errorLog

\* mutant: a generation that produced no image is remembered in the cache
ImageNoneMarked(k) ==
  /\ k \in DOMAIN imageTasks /\ imageTasks[k].pc = "call"
  /\ isGeneratingImg' = FALSE
  /\ imageTasks' = Remove(imageTasks, k)
  /\ imageStorage' =
       [key \in DOMAIN imageStorage \cup {cacheKey(rev, imageTasks[k].item.id)} |->
          IF key = cacheKey(rev, imageTasks[k].item.id) THEN "failed"
          ELSE imageStorage[key]]
  /\ UNCHANGED <<itemImage, calls, imageLog>>
  /\ imageFrame
  /\ UNCHANGED errorLog

\* the adapter returned undefined: nothing is stored or shown
ImageNone(k) ==
  /\ k \in DOMAIN imageTasks /\ imageTasks[k].pc = "call"
  /\ isGeneratingImg' = FALSE
  /\ imageTasks' = Remove(imageTasks, k)
  /\ UNCHANGED <<itemImage, imageStorage, calls, imageLog>>
  /\ imageFrame
  /\ UNCHANGED errorLog

\* mutant: a rejected call is issued once more
ImageThrowRetries(k) ==
  /\ k \in DOMAIN imageTasks /\ imageTasks[k].pc = "call"
  /\ Len(imageLog) <= Len(calls)
  /\ imageLog' = Append(imageLog, imageCall(imageTasks[k]))
  /\ UNCHANGED <<isGeneratingImg, itemImage, imageStorage, calls, imageTasks>>
  /\ UNCHANGED errorLog
  /\ imageFrame

\* generateItemImage rejected: catch (e) { await handleApiError(e) }
ImageThrow(k) ==
  /\ k \in DOMAIN imageTasks /\ imageTasks[k].pc = "call"
  /\ imageTasks' = [imageTasks EXCEPT ![k].pc = "err"]
  /\ UNCHANGED <<isGeneratingImg, itemImage, imageStorage, calls, imageLog>>
  /\ imageFrame
  /\ UNCHANGED errorLog

\* the response has no candidate parts at all: the current adapter returns
\* undefined, the older one throws Error("No image generated")
ImageNoParts(k) == ImageNone(k) \/ ImageThrow(k)

\* mutant: the flag is reset in the try block only, not in a finally
ImageErrReturnNoFinally(k) ==
  /\ k \in DOMAIN imageTasks /\ imageTasks[k].pc = "err"
  /\ imageTasks' = Remove(imageTasks, k)
  /\ UNCHANGED <<isGeneratingImg, itemImage, imageStorage, calls, imageLog>>
  /\ imageFrame
  /\ logError("image")

\* handleApiError returned or threw: finally { setIsGeneratingImg(false) }
ImageErrReturn(k) ==
  /\ k \in DOMAIN imageTasks /\ imageTasks[k].pc = "err"
  /\ isGeneratingImg' = FALSE
  /\ imageTasks' = Remove(imageTasks, k)
  /\ UNCHANGED <<itemImage, imageStorage, calls, imageLog>>
  /\ imageFrame
  /\ logError("image")

\* mutant: the image is stored under the key of the item on the card when the
\* generation completes, not of the item it was requested for
ImageStoredUnderDisplayed(k) ==
  /\ k \in DOMAIN imageTasks /\ imageTasks[k].pc = "store"
  /\ LET shown == IF state.view = "learning_detail"
                       /\ HasItem(state.selectedCategory, learningIndex)
                   THEN ItemAt(state.selectedCategory, learningIndex).id
                   ELSE imageTasks[k].item.id
     IN imageStorage' =
          [key \in DOMAIN imageStorage \cup {cacheKey(rev, shown)} |->
             IF key = cacheKey(rev, shown) THEN imageTasks[k].url
             ELSE imageStorage[key]]
  /\ imageTasks' = [imageTasks EXCEPT ![k].pc = "show"]
  /\ UNCHANGED <<isGeneratingImg, itemImage, calls, imageLog>>
  /\ UNCHANGED errorLog
  /\ imageFrame

\* the cache write is done
ImageStored(k) ==
  /\ k \in DOMAIN imageTasks /\ imageTasks[k].pc = "store"
  /\ imageStorage' =
       [key \in DOMAIN imageStorage \cup {cacheKey(rev, imageTasks[k].item.id)} |->
          IF key = cacheKey(rev, imageTasks[k].item.id) THEN imageTasks[k].url
          ELSE imageStorage[key]]
  /\ imageTasks' = [imageTasks EXCEPT ![k].pc = "show"]
  /\ UNCHANGED <<isGeneratingImg, itemImage, calls, imageLog>>
  /\ imageFrame
  /\ UNCHANGED errorLog

\* imageStorage.set rejected: catch (e) { await handleApiError(e) }
ImageStoreThrow(k) ==
  /\ k \in DOMAIN imageTasks /\ imageTasks[k].pc = "store"
  /\ imageTasks' = [imageTasks EXCEPT ![k].pc = "err"]
  /\ UNCHANGED <<isGeneratingImg, itemImage, imageStorage, calls, imageLog>>
  /\ imageFrame
  /\ UNCHANGED errorLog

\* imageStorage.set resolved: setItemImage(url); finally { setIsGeneratingImg(false) }
ImageShown(k) ==
  /\ k \in DOMAIN imageTasks /\ imageTasks[k].pc = "show"
  /\ itemImage' = imageTasks[k].url
  /\ isGeneratingImg' = FALSE
  /\ imageTasks' = Remove(imageTasks, k)
  /\ UNCHANGED <<imageStorage, calls, imageLog>>
  /\ imageFrame
  /\ UNCHANGED errorLog

----------------------------------------------------------------------------
(* Specification of the image path: browsing items and generating images *)

NextImage ==
  \/ NewWords
  \/ \E k \in DOMAIN categories : PickTopic(k)
  \/ GoHome
  \/ \E k \in DOMAIN categories : SwitchCategory(k)
  \/ NextItem
  \/ handleImageGen
  \/ \E k \in DOMAIN imageTasks : ImageKeyReturn(k)
  \/ \E k \in DOMAIN imageTasks : ImageKeyThrow(k)
  \/ \E k \in DOMAIN imageTasks : \E data \in ImageData : ImageReturn(k, data)
  \/ \E k \in DOMAIN imageTasks : ImageNone(k)
  \/ \E k \in DOMAIN imageTasks : ImageThrow(k)
  \/ \E k \in DOMAIN imageTasks : ImageErrReturn(k)
  \/ \E k \in DOMAIN imageTasks : ImageStored(k)
  \/ \E k \in DOMAIN imageTasks : ImageStoreThrow(k)
  \/ \E k \in DOMAIN imageTasks : ImageShown(k)
  \/ \E id \in loadTasks : loadImage(id)

SpecImage == Init /\ [][NextImage]_vars

\* the item card alone: entering learning_detail, stepping through the items,
\* generating images
NextCard ==
  \/ NewWords
  \/ \E k \in DOMAIN categories : PickTopic(k)
  \/ NextItem
  \/ handleImageGen
  \/ \E k \in DOMAIN imageTasks : ImageKeyReturn(k)
  \/ \E k \in DOMAIN imageTasks : ImageKeyThrow(k)
  \/ \E k \in DOMAIN imageTasks : \E data \in ImageData : ImageReturn(k, data)
  \/ \E k \in DOMAIN imageTasks : ImageNone(k)
  \/ \E k \in DOMAIN imageTasks : ImageNoParts(k)
  \/ \E k \in DOMAIN imageTasks : ImageThrow(k)
  \/ \E k \in DOMAIN imageTasks : ImageErrReturn(k)
  \/ \E k \in DOMAIN imageTasks : ImageStored(k)
  \/ \E k \in DOMAIN imageTasks : ImageStoreThrow(k)
  \/ \E k \in DOMAIN imageTasks : ImageShown(k)
  \/ \E id \in loadTasks : loadImage(id)

SpecCard == Init /\ [][NextCard]_vars

----------------------------------------------------------------------------
(* handleSpeech *)

\* mutant: the guard is missing
speechGuardOff == FALSE

\* if (isSpeaking) return;
speechGuard == isSpeaking

\* the texts the speak buttons pass: a letter in the alphabet room, the name of
\* the displayed item (or "" when there is none) in learning_detail
SpeakTexts ==
  IF Visible("alphabet") THEN Letters
  ELSE IF Visible("learning_detail")
       THEN {IF HasItem(state.selectedCategory, learningIndex)
             THEN ItemAt(state.selectedCategory, learningIndex).name ELSE ""}
       ELSE {}

speechFrame ==
  UNCHANGED <<envVars, categories, navVars, isExpanding, isGeneratingImg, itemImage,
              localStorage, imageStorage, expandTasks, imageTasks, loadTasks, now,
              imageLog, errorLog>>

speechEvent(c, op, text) == [call |-> c, op |-> op, text |-> text]

\* the click: the guard, the flag, and the first collaborator call.  v9 calls
\* generateSpeech only if process.env.API_KEY is set, which `key` stands for.
handleSpeech(text, key) ==
  /\ text \in SpeakTexts /\ key \in BOOLEAN
  /\ Count("speak") < MaxSpeak
  /\ calls' = Append(calls, [op |-> "speak", passed |-> ~speechGuard, arg |-> text])
  /\ IF speechGuard
     THEN UNCHANGED <<isSpeaking, speechTasks, speechLog>>
     ELSE /\ isSpeaking' = TRUE
          /\ LET c == Len(calls) + 1 IN
             IF rev = "v9" /\ ~key
             THEN /\ speechTasks' = Append(speechTasks, [pc |-> "local", call |-> c, text |-> text])
                  /\ speechLog' = Append(speechLog, speechEvent(c, "playLocalSpeech", text))
             ELSE /\ speechTasks' = Append(speechTasks, [pc |-> "synth", call |-> c, text |-> text])
                  /\ speechLog' = Append(speechLog, speechEvent(c, "generateSpeech", text))
  /\ speechFrame

\* generateSpeech returned audio: playTTSSound(audio, text)
SynthReturn(k) ==
  /\ k \in DOMAIN speechTasks /\ speechTasks[k].pc = "synth"
  /\ speechTasks' = [speechTasks EXCEPT ![k].pc = "play"]
  /\ speechLog' = Append(speechLog,
       speechEvent(speechTasks[k].call, "playTTSSound", speechTasks[k].text))
  /\ UNCHANGED <<isSpeaking, calls>>
  /\ speechFrame

\* finally { setIsSpeaking(false) }
speechDone(k) ==
  /\ isSpeaking' = FALSE
  /\ speechTasks' = Remove(speechTasks, k)
  /\ UNCHANGED calls
  /\ speechFrame

\* mutant: the failure leaves the handler without the local fallback
fallBackSkipped(k) ==
  /\ UNCHANGED speechLog
  /\ speechDone(k)

\* the fallback: if (!played) await playLocalSpeech(text)
fallBack(k) ==
  /\ speechTasks' = [speechTasks EXCEPT ![k].pc = "local"]
  /\ speechLog' = Append(speechLog,
       speechEvent(speechTasks[k].call, "playLocalSpeech", speechTasks[k].text))
  /\ UNCHANGED <<isSpeaking, calls>>
  /\ speechFrame

\* generateSpeech returned no audio
SynthNone(k) ==
  /\ k \in DOMAIN speechTasks /\ speechTasks[k].pc = "synth"
  /\ fallBack(k)

\* generateSpeech rejected: the inner catch swallows it
SynthThrow(k) ==
  /\ k \in DOMAIN speechTasks /\ speechTasks[k].pc = "synth"
  /\ fallBack(k)

\* playTTSSound rejected: played stays false
PlayThrow(k) ==
  /\ k \in DOMAIN speechTasks /\ speechTasks[k].pc = "play"
  /\ fallBack(k)

\* playTTSSound resolved: played = true, no fallback
PlayReturn(k) ==
  /\ k \in DOMAIN speechTasks /\ speechTasks[k].pc = "play"
  /\ speechLog' = Append(speechLog,
       speechEvent(speechTasks[k].call, "played", speechTasks[k].text))
  /\ speechDone(k)

\* playLocalSpeech resolved, or rejected into the outer catch
LocalReturn(k) ==
  /\ k \in DOMAIN speechTasks /\ speechTasks[k].pc = "local"
  /\ UNCHANGED speechLog
  /\ speechDone(k)

----------------------------------------------------------------------------
(* Specification of the speech path: the alphabet room and the item card *)

NextSpeech ==
  \/ GoAlphabet
  \/ NewWords
  \/ \E k \in DOMAIN categories : PickTopic(k)
  \/ GoHome
  \/ \E text \in SpeakTexts : \E key \in BOOLEAN : handleSpeech(text, key)
  \/ \E k \in DOMAIN speechTasks : SynthReturn(k)
  \/ \E k \in DOMAIN speechTasks : SynthNone(k)
  \/ \E k \in DOMAIN speechTasks : SynthThrow(k)
  \/ \E k \in DOMAIN speechTasks : PlayReturn(k)
  \/ \E k \in DOMAIN speechTasks : PlayThrow(k)
  \/ \E k \in DOMAIN speechTasks : LocalReturn(k)
  \/ \E id \in loadTasks : loadImage(id)

SpecSpeech == Init /\ [][NextSpeech]_vars

----------------------------------------------------------------------------
(* Specification of the three guarded handlers running together *)

ExpandProgress ==
  \E k \in DOMAIN expandTasks :
    \/ ExpandKeyReturn(k)
    \/ ExpandKeyThrow(k)
    \/ \E data \in Responses : ExpandReturn(k, data)
    \/ ExpandEmpty(k)
    \/ ExpandThrow(k)
    \/ \E text \in MalformedTexts : ExpandMalformed(k, text)
    \/ ExpandErrReturn(k)

ImageProgressWith(images) ==
  \E k \in DOMAIN imageTasks :
    \/ ImageKeyReturn(k)
    \/ ImageKeyThrow(k)
    \/ \E data \in images : ImageReturn(k, data)
    \/ ImageNone(k)
    \/ ImageThrow(k)
    \/ ImageErrReturn(k)
    \/ ImageStored(k)
    \/ ImageStoreThrow(k)
    \/ ImageShown(k)

SpeechProgress ==
  \E k \in DOMAIN speechTasks :
    \/ SynthReturn(k)
    \/ SynthNone(k)
    \/ SynthThrow(k)
    \/ PlayReturn(k)
    \/ PlayThrow(k)
    \/ LocalReturn(k)

ImageProgress == ImageProgressWith(ImageData)

\* where only the guards and the flags are observed, one image stands for all
OneImage == {"p"}

LoadProgress == \E id \in loadTasks : loadImage(id)

NextCapped(cap) ==
  \/ NewWords
  \/ \E k \in DOMAIN categories : PickTopic(k)
  \/ Len(calls) < cap /\ handleExpand
  \/ Len(calls) < cap /\ handleImageGen
  \/ Len(calls) < cap /\ \E text \in SpeakTexts : \E key \in BOOLEAN : handleSpeech(text, key)
  \/ ExpandProgress
  \/ ImageProgressWith(OneImage)
  \/ SpeechProgress
  \/ LoadProgress

NextAll == NextCapped(MaxCalls)

SpecAll == Init /\ [][NextAll]_vars

NextFair == NextCapped(MaxFairCalls)

\* every awaited collaborator call returns or throws
FairAll ==
  /\ WF_vars(ExpandProgress)
  /\ WF_vars(ImageProgressWith(OneImage))
  /\ WF_vars(SpeechProgress)
  /\ WF_vars(LoadProgress)

SpecAllFair == Init /\ [][NextFair]_vars /\ FairAll

----------------------------------------------------------------------------
(* Specification of browsing: the ways to an item card and from card to    *)
(* card, with image generation                                             *)

NextBrowse ==
  \/ NewWords
  \/ \E k \in DOMAIN categories : PickTopic(k)
  \/ GoHome
  \/ \E k \in DOMAIN categories : SwitchCategory(k)
  \/ PrevItem
  \/ NextItem
  \/ Len(calls) < MaxBrowseCalls /\ handleImageGen
  \/ ImageProgressWith(OneImage)
  \/ LoadProgress

SpecBrowse == Init /\ [][NextBrowse]_vars

----------------------------------------------------------------------------
(* A session that finds the asset cache as a session of some revision left  *)
(* it: the cache outlives the page and is shared by all revisions.          *)

\* an image a session of revision r generated; its data tells it from all others
OldImage(r) == imagePayload("o" \o r)

\* the cache with images under the keys revision r gives the items `ids`
StoreOf(r, ids) == [key \in {cacheKey(r, id) : id \in ids} |-> OldImage(r)]

OldStores == {StoreOf(r, ids) : r \in Revisions, ids \in {{"apple"}, {"apple", "cat"}}}

InitEpoch == \E store \in OldStores : InitWith(NoRecord, store)

NextEpoch ==
  \/ NewWords
  \/ \E k \in DOMAIN categories : PickTopic(k)
  \/ NextItem
  \/ Len(calls) < MaxEpochCalls /\ handleImageGen
  \/ ImageProgress
  \/ LoadProgress

SpecEpoch == InitEpoch /\ [][NextEpoch]_vars

----------------------------------------------------------------------------
(* Specification of the error handling: the three handlers on the item card *)
(* and in the alphabet room, with every failure handleApiError is given     *)
(* recorded                                                                 *)

InitErrors ==
  /\ sessionStart(NoRecord, EmptyStore)
  /\ errorLog = [observed |-> TRUE, log |-> <<>>]

NextErrors ==
  \/ NewWords
  \/ \E k \in DOMAIN categories : PickTopic(k)
  \/ Len(calls) < MaxErrorCalls /\ handleExpand
  \/ Len(calls) < MaxErrorCalls /\ handleImageGen
  \/ Len(calls) < MaxErrorCalls /\ \E text \in SpeakTexts : \E key \in BOOLEAN : handleSpeech(text, key)
  \/ ExpandProgress
  \/ ImageProgressWith(OneImage)
  \/ SpeechProgress
  \/ LoadProgress

SpecErrors == InitErrors /\ [][NextErrors]_vars

----------------------------------------------------------------------------
(* Claims about the error handling *)

\* C22: no failure leaves an intent handler: every failure of a remote call,
\* and every failure raised while that failure is handled (the credential
\* dialog failing), is caught inside the handler, which completes normally.
C22_NoFailurePropagates ==
  \A i \in DOMAIN errorLog.log : ~errorLog.log[i].did.rejected

\* C23: where the credential-selection flow exists, a failure of an expansion
\* or image generation whose nature is a missing or invalid credential (the
\* adapter's own missing-key failure included) is answered by opening that
\* flow; and the handler ends without issuing the remote call again.
C23_CredentialFailurePrompts ==
  /\ [](\A i \in DOMAIN errorLog.log :
          (hasAistudio /\ errorLog.log[i].error.kind = "credential") =>
            errorLog.log[i].did.prompt)
  /\ [][/\ \A k \in DOMAIN imageTasks :
             ImageErrReturn(k) =>
               imageLog' = imageLog /\ imageTasks' = Remove(imageTasks, k)
        /\ \A k \in DOMAIN expandTasks :
             ExpandErrReturn(k) => expandTasks' = Remove(expandTasks, k)]_vars

\* C24: a failure whose nature is a content-safety rejection is answered by
\* an alert, not by the credential dialog, and the alert's text is not the text
\* shown for any failure of another nature (credential, connectivity); the
\* handler ends without issuing the remote call again, and catalog, persisted
\* record and asset cache are as they were.
C24_SafetyRejectionIsDistinct ==
  /\ [](\A i \in DOMAIN errorLog.log :
          errorLog.log[i].error.kind = "safety" =>
            LET did == errorLog.log[i].did IN
              /\ did.alert # Null
              /\ ~did.prompt
              /\ \A e \in Errors : \A promptOk \in BOOLEAN :
                   e.kind # "safety" =>
                     handleApiError(rev, hasAistudio, e.message, promptOk).alert # did.alert)
  /\ [][\A k \in DOMAIN imageTasks \cup DOMAIN expandTasks :
          ((k \in DOMAIN imageTasks /\ ImageErrReturn(k))
             \/ (k \in DOMAIN expandTasks /\ ExpandErrReturn(k))) =>
            /\ UNCHANGED <<categories, localStorage, imageStorage, imageLog>>
            /\ Len(imageTasks') <= Len(imageTasks)
            /\ Len(expandTasks') <= Len(expandTasks)]_vars

\* Specification of the two handlers that call the generative service with
\* the user's consent: expansion and image generation on the item card
NextRemote ==
  \/ NewWords
  \/ \E k \in DOMAIN categories : PickTopic(k)
  \/ Len(calls) < MaxRemoteCalls /\ handleExpand
  \/ Len(calls) < MaxRemoteCalls /\ handleImageGen
  \/ ExpandProgress
  \/ ImageProgressWith(OneImage)
  \/ LoadProgress

SpecRemote == Init /\ [][NextRemote]_vars

\* the number of handlers at position pc
atPc(tasks, pc) == Cardinality({k \in DOMAIN tasks : tasks[k].pc = pc})

\* the number of accepted intents of a kind
accepted(op) == Cardinality({i \in DOMAIN calls : calls[i].op = op /\ calls[i].passed})

\* C35: the controller never retries on its own: every call to the image
\* adapter belongs to an accepted intent of its own (an intent still at its
\* credential check has made none); a call to the expansion service is issued
\* only by the click of an accepted intent or by the return of its credential
\* check, one at a time, and a handler never returns to its credential check;
\* a handler that handled a failure ends.
C35_NoAutomaticRetry ==
  /\ [](Len(imageLog) + atPc(imageTasks, "key") <= accepted("image"))
  /\ [](Len(expandTasks) <= accepted("expand"))
  /\ [][/\ atPc(expandTasks', "call") > atPc(expandTasks, "call") =>
             /\ atPc(expandTasks', "call") = atPc(expandTasks, "call") + 1
             /\ \/ handleExpand /\ Len(expandTasks') = Len(expandTasks) + 1
                \/ /\ atPc(expandTasks', "key") = atPc(expandTasks, "key") - 1
                   /\ Len(expandTasks') = Len(expandTasks)
        /\ atPc(expandTasks', "key") > atPc(expandTasks, "key") =>
             handleExpand /\ Len(expandTasks') = Len(expandTasks) + 1
        /\ \A k \in DOMAIN expandTasks :
             ExpandErrReturn(k) => expandTasks' = Remove(expandTasks, k)
        /\ \A k \in DOMAIN imageTasks :
             ImageErrReturn(k) =>
               imageTasks' = Remove(imageTasks, k) /\ imageLog' = imageLog]_vars

\* an expansion and an image generation were accepted, both handlers have
\* ended without a result (the catalog is as it was, the cache is empty), and
\* the image adapter was called once
C35_Witness ==
  /\ accepted("expand") = 1 /\ accepted("image") = 1
  /\ expandTasks = <<>> /\ imageTasks = <<>>
  /\ categories = INITIAL_CATEGORIES /\ DOMAIN imageStorage = {}
  /\ Len(imageLog) = 1

----------------------------------------------------------------------------
(* Specification of the views: every intent the views offer, in sessions    *)
(* that start with no record or with a catalog an earlier session expanded  *)

InitNav == \E saved \in SavedRecords \ {CorruptRecord} : InitWith(saved, EmptyStore)

NextNav ==
  \/ GoAlphabet
  \/ NewWords
  \/ \E k \in DOMAIN categories : PickTopic(k)
  \/ GoGameTypes
  \/ OpenAllCats
  \/ CloseAllCats
  \/ \E k \in DOMAIN categories : PickFromAllCats(k)
  \/ GoHome
  \/ \E k \in DOMAIN categories : SwitchCategory(k)
  \/ TogglePersian
  \/ PrevItem
  \/ NextItem
  \/ \E type \in GameType : PickGame(type)
  \/ \E k \in DOMAIN categories : PickGameCat(k)
  \/ GameBack
  \/ \E id \in loadTasks : loadImage(id)

SpecNav == InitNav /\ [][NextNav]_vars

\* A way back to main exists from every reachable state exactly if a user who
\* keeps taking the intents that lead back (close the overlay, leave the game,
\* go home), whenever they are offered again and again, always arrives: every
\* finite behaviour can be continued by such a user.
FairNav == SF_vars(CloseAllCats) /\ SF_vars(GameBack) /\ SF_vars(GoHome)

SpecNavFair == InitNav /\ [][NextNav]_vars /\ FairNav

----------------------------------------------------------------------------
(* Claims about the views *)

\* C18: in a category with K >= 1 items and the index i on one of them, the
\* next button leads from K-1 to 0 and from any other i to i+1; the previous
\* button leads from 0 to K-1 and from any other i to i-1.
C18_CircularNavigation ==
  [][LET K == Len(state.selectedCategory.items)
         i == learningIndex
     IN (K >= 1 /\ i \in 0..(K - 1)) =>
          /\ NextItem => learningIndex' = IF i = K - 1 THEN 0 ELSE i + 1
          /\ PrevItem => learningIndex' = IF i = 0 THEN K - 1 ELSE i - 1]_vars

\* the last of three items is displayed
C18_Witness ==
  /\ Visible("learning_detail")
  /\ Len(state.selectedCategory.items) = 3 /\ learningIndex = 2

\* C19: choosing a category on the category bar of learning_detail sets the
\* item index to 0 and clears the reveal-localized-name toggle.
C19_SwitchResets ==
  [][\A k \in DOMAIN categories :
       SwitchCategory(k) => (learningIndex' = 0 /\ showPersian' = FALSE)]_vars

\* C28: whenever the view is learning_detail and the selected category has at
\* least one item, the item index is one of 0 .. (number of items - 1).
C28_IndexInRange ==
  (state.view = "learning_detail" /\ Len(state.selectedCategory.items) >= 1) =>
    learningIndex \in 0..(Len(state.selectedCategory.items) - 1)

\* C20: the view is always one of the six views, the first view is main, and
\* main can be reached again from every reachable state.
C20_ViewsAndWayHome ==
  /\ state.view = "main"
  /\ [](state.view \in Views)
  /\ []<>(state.view = "main")

\* a game is being played
C20_Witness == Visible("game_active") /\ state.selectedGame \in GameType

\* C36: whenever the view is game_active, a game mode is selected
\* (selectedGame is not null) and a category is selected; game_active is
\* entered only from game_cats, game_cats is entered only from game_types and
\* with a game mode chosen, and leaving game_active leads to game_types.
C36_GameActiveWellFormed ==
  /\ [](state.view = "game_active" =>
          (/\ state.selectedGame \in GameType
           /\ state.selectedCategory # NoCategory
           /\ HasCat(categories, state.selectedCategory.id)))
  /\ [][
        /\ (state'.view = "game_active" /\ state.view # "game_active")
              => state.view = "game_cats"
        /\ (state'.view = "game_cats" /\ state.view # "game_cats")
              => (state.view = "game_types" /\ state'.selectedGame \in GameType)
        /\ (state.view = "game_active" /\ state'.view # "game_active")
              => state'.view = "game_types"
     ]_vars

\* back on the game picker after a quiz on the second category was left
C36_Witness ==
  /\ Visible("game_types")
  /\ state.selectedGame = "QUIZ"
  /\ Len(categories) >= 2 /\ state.selectedCategory = categories[2]

----------------------------------------------------------------------------
(* Claims about the guards and the busy flags *)

flagOf(op) == IF op = "speak" THEN isSpeaking
              ELSE IF op = "expand" THEN isExpanding ELSE isGeneratingImg

\* C5: a handler invoked while its busy flag is set is a no-op: no remote call,
\* and catalog, persisted record, asset cache, displayed image, the three flags
\* and the in-flight work are left as they were.
C5_GuardedCallIsNoOp ==
  [][(Len(calls') = Len(calls) + 1 /\ flagOf(calls'[Len(calls')].op)) =>
       UNCHANGED <<categories, localStorage, imageStorage, itemImage, isSpeaking,
                   isExpanding, isGeneratingImg, expandTasks, imageTasks, speechTasks,
                   speechLog, imageLog>>]_vars

\* a handler was invoked while its flag was set by an earlier invocation, and dropped
C5_Witness ==
  \E i, j \in DOMAIN calls :
    /\ i < j /\ calls[i].op = calls[j].op /\ calls[i].passed /\ ~calls[j].passed
    /\ flagOf(calls[j].op)

\* C9: a busy flag is only ever set while an operation of its kind is in
\* progress, and every flag that is set is released again once the awaited
\* collaborator calls return or throw.
C9_FlagsReleased ==
  /\ [](isExpanding => \E k \in DOMAIN expandTasks : expandTasks[k].pc \in {"call", "err"})
  /\ [](isGeneratingImg =>
          \E k \in DOMAIN imageTasks : imageTasks[k].pc \in {"call", "err", "store", "show"})
  /\ [](isSpeaking => speechTasks # <<>>)
  /\ (isExpanding ~> ~isExpanding)
  /\ (isGeneratingImg ~> ~isGeneratingImg)
  /\ (isSpeaking ~> ~isSpeaking)

\* all that was started has ended, one way or another, and no flag is set
C9_Witness ==
  /\ Len(calls) = 2 /\ calls[1].passed /\ calls[2].passed /\ calls[1].op # calls[2].op
  /\ expandTasks = <<>> /\ imageTasks = <<>> /\ speechTasks = <<>>
  /\ ~isExpanding /\ ~isGeneratingImg /\ ~isSpeaking

----------------------------------------------------------------------------
(* Claims about image generation *)

\* C6: at most one image generation is in flight: the number of handleImageGen
\* invocations that passed the guard and have not finished is at most 1.
C6_SingleImageGenInFlight == Len(imageTasks) <= 1

\* C10: a handleImageGen invoked when the asset cache already holds the item's
\* key (an earlier generation's cache write has completed) is served from the
\* cache: it makes no call to the image adapter.
C10_SecondCallServedFromCache == \A i \in DOMAIN imageLog : ~imageLog[i].cached

\* C11: a failed image generation (the remote call throws, no image is
\* produced, or the error handler returns) leaves the asset cache untouched and
\* the cache never holds anything but generated payloads (no failure marker);
\* every handleImageGen that passes its guard, whatever failed before, puts its
\* call for the item to the image adapter.
C11_FailureLeavesCacheUntouched ==
  /\ [][/\ \A k \in DOMAIN imageTasks :
             (ImageNone(k) \/ ImageThrow(k) \/ ImageErrReturn(k)) =>
               imageStorage' = imageStorage
        /\ Len(imageTasks') >= Len(imageTasks) =>
             \A k \in DOMAIN imageTasks' :
               (imageTasks'[k].pc = "call" /\
                  (k \notin DOMAIN imageTasks \/ imageTasks[k].pc # "call")) =>
                 imageLog' = Append(imageLog, imageCall(imageTasks'[k]))]_vars
  /\ [](\A key \in DOMAIN imageStorage :
          \E data \in ImageData : imageStorage[key] = imagePayload(data))

\* a generation for an item failed, the cache is still empty, and a second
\* handleImageGen for the same item is at the image adapter
C11_Witness ==
  /\ ~ensureApiKeySuspends
  /\ Len(imageLog) = 2 /\ imageLog[1].id = imageLog[2].id
  /\ DOMAIN imageStorage = {}
  /\ Len(imageTasks) = 1 /\ imageTasks[1].pc = "call"

\* C25: a remote image response without an image part (no candidate parts at
\* all, or parts none of which carries image data) makes the generation fail:
\* the handler enters its error handling, as it does when the call throws.
C25_NoImagePartIsAnError ==
  [][\A k \in DOMAIN imageTasks :
       (ImageNone(k) \/ ImageNoParts(k)) =>
         (k \in DOMAIN imageTasks' /\ imageTasks'[k].pc = "err")]_vars

\* the id of the item on the card of learning_detail, Null where there is none
displayedId(s, index) ==
  IF s.view = "learning_detail" /\ HasItem(s.selectedCategory, index)
  THEN ItemAt(s.selectedCategory, index).id ELSE Null

\* C26: a step that changes the displayed item (index change, category
\* switch, entering learning_detail) leaves no image of the earlier item on
\* display: the displayed image is absent or the new item's cached asset from
\* that step on; and when the lookup for the displayed item returns, the
\* displayed image is the item's cached asset on a hit and absent on a miss.
C26_ImageClearedOnItemChange ==
  [][/\ (displayedId(state', learningIndex') # displayedId(state, learningIndex)
           /\ displayedId(state', learningIndex') # Null) =>
          \/ itemImage' = Null
          \/ itemImage' = imageStorageGet(imageStorage',
                             cacheKey(rev, displayedId(state', learningIndex')))
     /\ \A id \in loadTasks :
          (loadImage(id) /\ id = displayedId(state, learningIndex)) =>
            itemImage' = imageStorageGet(imageStorage, cacheKey(rev, id))]_vars

\* C27: the displayed image belongs to the displayed item: in learning_detail,
\* whenever no cache lookup and no image generation is pending, a displayed
\* image is the cached asset of the item on the card, however lookups,
\* generations and the user's moves were interleaved.
C27_ImageBelongsToItem ==
  (state.view = "learning_detail" /\ loadTasks = {} /\ imageTasks = <<>>
     /\ itemImage # Null) =>
    /\ displayedId(state, learningIndex) # Null
    /\ itemImage = imageStorageGet(imageStorage,
                                   cacheKey(rev, displayedId(state, learningIndex)))

\* C29: the image adapter is called only on the explicit intent: every call
\* is made by a handleImageGen that passed its guard (at once, or when its
\* credential check returns), so there are never more calls than such intents;
\* no navigation step and no cache lookup, hit or miss, makes a call.
C29_RemoteImageOnlyOnIntent ==
  /\ [](Len(imageLog) <=
          Cardinality({i \in DOMAIN calls : calls[i].op = "image" /\ calls[i].passed}))
  /\ [][/\ imageLog' # imageLog =>
             (handleImageGen \/ \E k \in DOMAIN imageTasks : ImageKeyReturn(k))
        /\ \A id \in loadTasks : loadImage(id) => imageLog' = imageLog
        /\ (state' # state \/ learningIndex' # learningIndex) => imageLog' = imageLog]_vars

\* the user generated one image, then moved to an item that has none in the
\* cache: its lookup has missed, the glyph is shown, and the one call stands
C29_Witness ==
  /\ Len(imageLog) = 1
  /\ state.view = "learning_detail" /\ loadTasks = {} /\ imageTasks = <<>>
  /\ displayedId(state, learningIndex) \notin {Null, imageLog[1].id}
  /\ cacheKey(rev, displayedId(state, learningIndex)) \notin DOMAIN imageStorage
  /\ itemImage = Null

\* the names the catalog gives the identifier `id`
namesOf(cats, id) ==
  UNION {{cats[c].items[j].name :
            j \in {n \in DOMAIN cats[c].items : cats[c].items[n].id = id}} :
         c \in DOMAIN cats}

\* C30: every cache entry pairs an item with its own image: a generation is
\* requested for the item on the card at that moment; when it completes, its
\* payload is written under the key of that item, wherever the user is by
\* then; so every key of the cache is the key of an item for which the image
\* adapter was called, with the name the catalog gives that item.
C30_CacheEntryPairsItemWithImage ==
  /\ [][/\ (handleImageGen /\ Len(imageTasks') > Len(imageTasks)) =>
             imageTasks'[Len(imageTasks')].item = ItemAt(state.selectedCategory, learningIndex)
        /\ \A k \in DOMAIN imageTasks :
             ImageStored(k) =>
               /\ DOMAIN imageStorage' =
                    DOMAIN imageStorage \cup {cacheKey(rev, imageTasks[k].item.id)}
               /\ imageStorage'[cacheKey(rev, imageTasks[k].item.id)] = imageTasks[k].url
               /\ \E i \in DOMAIN imageLog :
                    /\ imageLog[i].id = imageTasks[k].item.id
                    /\ imageLog[i].name = imageTasks[k].item.name]_vars
  /\ [](\A key \in DOMAIN imageStorage :
          \E i \in DOMAIN imageLog :
            /\ key = cacheKey(rev, imageLog[i].id)
            /\ namesOf(categories, imageLog[i].id) = {imageLog[i].name})

\* an image requested for one item is in the cache under that item's key, and
\* under no other, while the user is on another item's card and the handler
\* has not ended yet
C30_Witness ==
  /\ Len(imageTasks) = 1 /\ imageTasks[1].pc = "show"
  /\ DOMAIN imageStorage = {cacheKey(rev, imageTasks[1].item.id)}
  /\ displayedId(state, learningIndex) \notin {Null, imageTasks[1].item.id}

\* C12: when a generated image is put on display the asset cache holds that
\* payload under the item's key (the write came first); an entry once written
\* stays in the cache; and the lookup issued when the item is displayed again
\* returns the cached payload without a call to the image adapter.
C12_StoredBeforeShown ==
  [][/\ \A k \in DOMAIN imageTasks :
          ImageShown(k) =>
            imageStorageGet(imageStorage, cacheKey(rev, imageTasks[k].item.id))
              = imageTasks[k].url
     /\ DOMAIN imageStorage \subseteq DOMAIN imageStorage'
     /\ \A id \in loadTasks :
          loadImage(id) =>
            /\ itemImage' = imageStorageGet(imageStorage, cacheKey(rev, id))
            /\ imageLog' = imageLog]_vars

\* identifiers an item can have: the built-in ones, a generated one, and some
\* that look like keys themselves
KeyIds == {"apple", "banana", "cat", dynId("Fruits", 0, 0), "v5_apple", "img_v9_cat",
           "kids_joy_img_cat"}

\* C13: cache epochs are isolated: the key built from (epoch, item id) is the
\* same for two lookups only if both the epoch and the id are the same; the
\* controller reads and writes under the key of its own epoch; so the image on
\* display is never an asset written under another epoch.
C13_EpochIsolation ==
  /\ [](\A r1 \in Revisions, r2 \in Revisions : \A id1 \in KeyIds, id2 \in KeyIds :
          cacheKey(r1, id1) = cacheKey(r2, id2) => (r1 = r2 /\ id1 = id2))
  /\ [][/\ \A id \in loadTasks :
             loadImage(id) =>
               \/ itemImage' = Null /\ cacheKey(rev, id) \notin DOMAIN imageStorage
               \/ /\ cacheKey(rev, id) \in DOMAIN imageStorage
                  /\ itemImage' = imageStorage[cacheKey(rev, id)]
        /\ \A k \in DOMAIN imageTasks :
             ImageStored(k) =>
               /\ DOMAIN imageStorage' =
                    DOMAIN imageStorage \cup {cacheKey(rev, imageTasks[k].item.id)}
               /\ \A key \in DOMAIN imageStorage :
                    key # cacheKey(rev, imageTasks[k].item.id) =>
                      imageStorage'[key] = imageStorage[key]]_vars
  /\ [](\A r \in Revisions \ {rev} : itemImage # OldImage(r))

\* the cache holds an image of the displayed item under another epoch's key, the
\* lookup for the item has returned nothing, and this session has written an
\* image of another item under its own key
C13_Witness ==
  /\ Visible("learning_detail") /\ HasItem(state.selectedCategory, learningIndex)
  /\ loadTasks = {} /\ itemImage = Null
  /\ \E r \in Revisions \ {rev} :
       cacheKey(r, ItemAt(state.selectedCategory, learningIndex).id) \in DOMAIN imageStorage
  /\ \E id \in KeyIds : cacheKey(rev, id) \in DOMAIN imageStorage

----------------------------------------------------------------------------
(* Claims about speech *)

eventsOf(c, op) == {i \in DOMAIN speechLog : speechLog[i].call = c /\ speechLog[i].op = op}
speechFinished(c) == \A k \in DOMAIN speechTasks : speechTasks[k].call # c

\* C7: at most one speak chain is in progress, and a speak call issued while
\* another is in progress is dropped: nothing is ever sent to remote synthesis,
\* played or spoken locally on its behalf.
C7_SingleFlightSpeech ==
  /\ Len(speechTasks) <= 1
  /\ \A i \in DOMAIN speechLog :
       /\ speechLog[i].call \in DOMAIN calls
       /\ calls[speechLog[i].call].op = "speak"
       /\ calls[speechLog[i].call].passed

\* a speak call was dropped, and the chain it ran into has ended with its fallback
C7_Witness ==
  \E i, j \in DOMAIN calls :
    /\ i < j /\ calls[i].op = "speak" /\ calls[j].op = "speak"
    /\ calls[i].passed /\ ~calls[j].passed
    /\ speechFinished(i) /\ eventsOf(i, "playLocalSpeech") # {}

\* C8: when remote synthesis fails for an accepted speak(T) (it throws, returns
\* no audio, or playback fails), the call makes exactly one local-fallback
\* invocation, with text T, and no further remote attempt.
C8_FallbackOnce ==
  \A c \in DOMAIN calls :
    (calls[c].op = "speak" /\ calls[c].passed) =>
      /\ Cardinality(eventsOf(c, "generateSpeech")) <= 1
      /\ Cardinality(eventsOf(c, "playLocalSpeech")) <= 1
      /\ (speechFinished(c) /\ eventsOf(c, "generateSpeech") # {}
            /\ eventsOf(c, "played") = {}) =>
           /\ Cardinality(eventsOf(c, "playLocalSpeech")) = 1
           /\ \A i \in eventsOf(c, "playLocalSpeech") : speechLog[i].text = calls[c].arg

\* a chain whose playback failed has ended with its one local fallback
C8_Witness ==
  \E c \in DOMAIN calls :
    /\ calls[c].op = "speak" /\ calls[c].passed /\ speechFinished(c)
    /\ eventsOf(c, "playTTSSound") # {} /\ eventsOf(c, "played") = {}
    /\ eventsOf(c, "playLocalSpeech") # {}

\* C34: every accepted speak call attempts remote synthesis exactly once,
\* with or without a credential; once the call has ended, the local capability
\* was invoked exactly if the attempt did not end in a successful playback,
\* and it is never invoked when the remote audio was played.
C34_RemoteFirstThenLocal ==
  \A c \in DOMAIN calls :
    (calls[c].op = "speak" /\ calls[c].passed) =>
      /\ Cardinality(eventsOf(c, "generateSpeech")) = 1
      /\ eventsOf(c, "played") # {} => eventsOf(c, "playLocalSpeech") = {}
      /\ speechFinished(c) =>
           (eventsOf(c, "playLocalSpeech") # {} <=> eventsOf(c, "played") = {})

----------------------------------------------------------------------------
(* The whole controller *)

Next ==
  \/ GoAlphabet
  \/ NewWords
  \/ \E k \in DOMAIN categories : PickTopic(k)
  \/ GoGameTypes
  \/ OpenAllCats
  \/ CloseAllCats
  \/ \E k \in DOMAIN categories : PickFromAllCats(k)
  \/ GoHome
  \/ \E k \in DOMAIN categories : SwitchCategory(k)
  \/ TogglePersian
  \/ PrevItem
  \/ NextItem
  \/ \E type \in GameType : PickGame(type)
  \/ \E k \in DOMAIN categories : PickGameCat(k)
  \/ GameBack
  \/ Reload
  \/ Tick
  \/ handleExpand
  \/ handleImageGen
  \/ \E text \in SpeakTexts : \E key \in BOOLEAN : handleSpeech(text, key)
  \/ ExpandProgress
  \/ ImageProgress
  \/ \E k \in DOMAIN imageTasks : ImageNoParts(k)
  \/ SpeechProgress
  \/ LoadProgress

Spec == Init /\ [][Next]_vars

====
